---- MODULE Spec2Model ----
(***************************************************************************)
(* A state-machine model of src/src/cache.ts: the pattern-compilation      *)
(* cache, the TTL result cache, the stat cache, the fast-path matcher and  *)
(* the result-cache key derivation of the glob performance layer.          *)
(*                                                                         *)
(* JavaScript arrays are objects with identity: they live in `heap` and    *)
(* are named by references (indices into heap, 0 is null), so that a       *)
(* clone and an alias are different things in the model.  Strings whose    *)
(* characters the code inspects (patterns, file names, stat keys, option   *)
(* names) are sequences of one-character strings.                          *)
(***************************************************************************)
EXTENDS Integers, Sequences, FiniteSets, TLC

VARIABLES
    now,          \* the clock read by Date.now()
    heap,         \* the live arrays, by reference
    arr,          \* the caller's variable: an array it built itself
    got,          \* the caller's variable: what its last getCachedResults returned
    resultCache,  \* cache.ts:24  Map<string, CachedResult>
    stored,       \* history: per key, what the last setCachedResults stored
    evicted,      \* history: the keys whose entry a get removed, not set since
    patternCache, \* cache.ts:16  Map<string, Minimatch>
    engineCalls,  \* how many times new Minimatch(...) has been invoked
    built,        \* history: the last matcher built, the options it was built from,
                  \* and per key the matcher compiled since the last clear
    statCache,    \* cache.ts:28  Map<string, any>
    statSet,      \* history: per (path, kind), the value last set since a clear
    fp,           \* fastPathMatch: its arguments and its result
    ck,           \* createCacheKey: two callers' arguments and results
    tasks,        \* two tasks populating one result-cache key: where each stands
    ret           \* the last call and what it returned

resultVars == <<now, heap, arr, got, resultCache, stored, evicted>>
patternVars == <<patternCache, engineCalls, built>>
statVars == <<statCache, statSet>>
pureVars == <<fp, ck>>
taskVars == <<tasks>>
vars == <<resultVars, patternVars, statVars, pureVars, taskVars, ret>>

OtherTables == UNCHANGED <<patternVars, statVars, pureVars>>
OnlyResult == OtherTables /\ UNCHANGED taskVars
OnlyPattern == UNCHANGED <<resultVars, statVars, pureVars, taskVars>>
OnlyStat == UNCHANGED <<resultVars, patternVars, pureVars, taskVars>>
OnlyPure == UNCHANGED <<resultVars, patternVars, statVars, taskVars>>

----------------------------------------------------------------------------
(* Bounds of the model                                                      *)

MaxTime == 2
MaxLen == 2

(* Program constants                                                        *)

DEFAULT_TTL == 5000

----------------------------------------------------------------------------
(* Map<K,V> as a function whose domain is the set of keys present           *)

EmptyMap == << >>

MapHas(m, k) == k \in DOMAIN m

\* a slip a store could make: a key that is present keeps its value
MapSetIfAbsent(m, k, v) ==
    [x \in DOMAIN m \cup {k} |-> IF x \in DOMAIN m THEN m[x] ELSE v]

MapSet(m, k, v) == [x \in (DOMAIN m) \cup {k} |-> IF x = k THEN v ELSE m[x]]

MapDelete(m, k) == [x \in (DOMAIN m) \ {k} |-> m[x]]

MapSize(m) == Cardinality(DOMAIN m)

----------------------------------------------------------------------------
(* Strings are sequences of characters; JavaScript compares them by code    *)
(* unit, which is what Array.prototype.sort() with no comparator does.      *)

Code(c) ==
    CASE c = "!" -> 33  [] c = "*" -> 42  [] c = "." -> 46  [] c = "/" -> 47
      [] c = ":" -> 58  [] c = "?" -> 63  [] c = "_" -> 95
      [] c = "a" -> 97  [] c = "b" -> 98  [] c = "c" -> 99  [] c = "d" -> 100
      [] c = "e" -> 101 [] c = "f" -> 102 [] c = "j" -> 106 [] c = "l" -> 108
      [] c = "n" -> 110 [] c = "o" -> 111 [] c = "p" -> 112 [] c = "q" -> 113
      [] c = "s" -> 115 [] c = "t" -> 116 [] c = "w" -> 119 [] c = "|" -> 124
      [] c = "~" -> 126

StrLess(s, t) ==
    \E i \in 1 .. Len(t) :
        /\ \A j \in 1 .. (i - 1) : j <= Len(s) /\ s[j] = t[j]
        /\ \/ i = Len(s) + 1
           \/ i <= Len(s) /\ Code(s[i]) < Code(t[i])

InsertSorted(x, t) ==
    LET n == Cardinality({i \in 1 .. Len(t) : t[i] = x \/ StrLess(t[i], x)})
    IN  SubSeq(t, 1, n) \o <<x>> \o SubSeq(t, n + 1, Len(t))

RECURSIVE SortStrings(_)
SortStrings(s) ==
    IF s = << >> THEN << >>
    ELSE InsertSorted(s[Len(s)], SortStrings(SubSeq(s, 1, Len(s) - 1)))

(* JavaScript values, by what typeof says of them                           *)
JsTrue == [type |-> "boolean", v |-> "true"]
JsObject == [type |-> "object", v |-> "{}"]
JsFunction == [type |-> "function", v |-> "() => {}"]

TypeOf(val) == val.type

(* An options object: its own properties in insertion order                 *)
ObjectKeys(o) == [i \in 1 .. Len(o) |-> o[i].key]

Property(o, key) == (CHOOSE f \in {o[i] : i \in 1 .. Len(o)} : f.key = key).val

(* JSON.stringify of an object whose properties are `fields`, in order: a   *)
(* property whose value is undefined is left out                            *)
JsonObject(fields) ==
    SelectSeq([i \in 1 .. Len(fields) |-> <<fields[i].key, fields[i].val.v>>],
              LAMBDA kv : kv[2] # "undefined")

----------------------------------------------------------------------------
(* Result cache                                                             *)

ResultKeys == {"k1", "k2"}
AliasKeys == {"k1"}
Elems == {"x", "y"}
FreshArrays == {<<"x">>}
TTLs == {0, 1, DEFAULT_TTL}

\* The caller keeps two array variables, arr and got, and the cache one array
\* per key: no more arrays than that are ever reachable at once.
Refs == 1 .. (2 + Cardinality(ResultKeys))

NullRef == 0
NoCall == [op |-> "none"]
NoRet == [op |-> "none", key |-> "", ttl |-> 0, val |-> NullRef, branch |-> ""]

CallRet(op, key, ttl, val, branch) ==
    [op |-> op, key |-> key, ttl |-> ttl, val |-> val, branch |-> branch]

getResultCacheSize == MapSize(resultCache)

\* allocation: a reference no live array has
FreeRefs(h) == Refs \ DOMAIN h
NewRef(h) == CHOOSE r \in FreeRefs(h) : \A q \in FreeRefs(h) : r <= q

\* the arrays the tasks have computed
Tasks == {"t1", "t2"}
TaskRefs == {tasks[t].results : t \in Tasks}

\* garbage collection: an array neither the caller nor the cache can reach is
\* gone (nothing can observe it), and its reference may name a later array
Live(h, a, g, rc) ==
    LET reach == {a, g} \cup TaskRefs \cup {rc[k].results : k \in DOMAIN rc}
    IN  [r \in (DOMAIN h) \cap reach |-> h[r]]

\* history: the argument of a set is forgotten once that array is gone
Remembered(st, h) ==
    [k \in DOMAIN st |->
        IF st[k].arg \in DOMAIN h THEN st[k] ELSE [st[k] EXCEPT !.arg = NullRef]]

\* what the entry stored under k holds right now (what a hit would hand back)
EntryContents(k) == heap[resultCache[k].results]

\* the caller's arrays
Held == ({arr, got} \cup TaskRefs) \ {NullRef}

\* the clock: Date.now() never runs backwards between two reads
Tick ==
    /\ now < MaxTime
    /\ now' = now + 1
    /\ ret' = [NoRet EXCEPT !.op = "tick"]
    /\ UNCHANGED <<heap, arr, got, resultCache, stored, evicted>>
    /\ OnlyResult

\* the caller builds a result array of its own:  arr = [...]
NewArray(c) ==
    LET h == Live(heap, NullRef, got, resultCache)
    IN  /\ arr' = NewRef(h)
        /\ heap' = MapSet(h, NewRef(h), c)
        /\ stored' = Remembered(stored, h)
        /\ ret' = [NoRet EXCEPT !.op = "newArray", !.val = NewRef(h)]
        /\ UNCHANGED <<now, got, resultCache, evicted>>
        /\ OnlyResult

\* the entries whose array is the array a
EntriesOn(a) == {k \in DOMAIN resultCache : resultCache[k].results = a}

Written(a) ==
    [k \in DOMAIN stored |->
        IF k \in EntriesOn(a) THEN [stored[k] EXCEPT !.intact = FALSE] ELSE stored[k]]

\* the caller mutates an array it holds: push, pop, or overwrite an element
ArrayPush(a, v) ==
    /\ a \in Held
    /\ Len(heap[a]) < MaxLen
    /\ heap' = [heap EXCEPT ![a] = Append(@, v)]
    /\ stored' = Written(a)
    /\ ret' = [NoRet EXCEPT !.op = "mutate", !.val = a]
    /\ UNCHANGED <<now, arr, got, resultCache, evicted>>
    /\ OnlyResult

ArrayPop(a) ==
    /\ a \in Held
    /\ Len(heap[a]) > 0
    /\ heap' = [heap EXCEPT ![a] = SubSeq(@, 1, Len(@) - 1)]
    /\ stored' = Written(a)
    /\ ret' = [NoRet EXCEPT !.op = "mutate", !.val = a]
    /\ UNCHANGED <<now, arr, got, resultCache, evicted>>
    /\ OnlyResult

ArrayWrite(a, i, v) ==
    /\ a \in Held
    /\ i \in 1 .. Len(heap[a])
    /\ heap[a][i] # v
    /\ heap' = [heap EXCEPT ![a][i] = v]
    /\ stored' = Written(a)
    /\ ret' = [NoRet EXCEPT !.op = "mutate", !.val = a]
    /\ UNCHANGED <<now, arr, got, resultCache, evicted>>
    /\ OnlyResult

\* a slip the store could make: the entry keeps the caller's own array
SpreadShared(h, a) == [heap |-> h, ref |-> a]

\* cache.ts:148  results: [...results]  (a new array with the same elements):
\* the heap with the array the entry will hold, and that array's reference
Spread(h, a) == [heap |-> MapSet(h, NewRef(h), h[a]), ref |-> NewRef(h)]

\* history: the set this one overwrites (when the entry that one made is
\* still in the table): whether there was one, whether it ran at an earlier
\* instant, and whether it stored other contents
NoneReplaced == [any |-> FALSE, earlier |-> FALSE, differs |-> FALSE]
Replaced(k, a) ==
    IF MapHas(resultCache, k) /\ MapHas(stored, k)
    THEN [any |-> TRUE, earlier |-> stored[k].at < now,
          differs |-> stored[k].contents # heap[a]]
    ELSE NoneReplaced

\* a slip the store could make: an entry that exists keeps its timestamp
KeepStamp(rc, k, t) == IF MapHas(rc, k) THEN rc[k].timestamp ELSE t

\* cache.ts:149  timestamp: Date.now()
Stamp(rc, k, t) == t

\* cache.ts:143-151
setCachedResults(k, a) ==
    LET h == Live(heap, arr, got, MapDelete(resultCache, k))
    IN  /\ a \in Held
        /\ resultCache' = MapSet(resultCache, k,
                                 [results |-> Spread(h, a).ref,
                                  timestamp |-> Stamp(resultCache, k, now)])
        /\ heap' = Spread(h, a).heap
        /\ stored' = MapSet(stored, k,
                            [contents |-> heap[a], at |-> now, arg |-> a, intact |-> TRUE,
                             over |-> Replaced(k, a)])
        /\ evicted' = evicted \ {k}
        /\ ret' = CallRet("setCachedResults", k, 0, a, "")
        /\ UNCHANGED <<now, arr, got>>
        /\ OtherTables

\* the caller's  setCachedResults(k, a)
SetCachedResults(k, a) == setCachedResults(k, a) /\ UNCHANGED taskVars

\* a slip the expiry test could make: an entry exactly ttl old is dropped
ExpiredAtTtl(age, ttl) == age >= ttl

\* cache.ts:130-131
Expired(age, ttl) == age > ttl

\* a slip the expiry could make: every entry too old for this ttl is swept
EvictExpired(rc, k, t, ttl) ==
    [x \in {j \in DOMAIN rc : t - rc[j].timestamp <= ttl} |-> rc[x]]

\* a slip the expiry could make: null is returned and the entry is left
KeepEntry(rc, k, t, ttl) == rc

\* cache.ts:133  resultCache.delete(cacheKey)
Evict(rc, k, t, ttl) == MapDelete(rc, k)

\* cache.ts:121-138, and the caller's  got = getCachedResults(k, ttl)
getCachedResults(k, ttl) ==
    /\ IF ~MapHas(resultCache, k)
       THEN /\ ret' = CallRet("getCachedResults", k, ttl, NullRef, "miss")
            /\ UNCHANGED resultCache
       ELSE LET cached == resultCache[k]
                age == now - cached.timestamp
            IN  IF Expired(age, ttl)
                THEN /\ resultCache' = Evict(resultCache, k, now, ttl)
                     /\ ret' = CallRet("getCachedResults", k, ttl, NullRef, "expired")
                ELSE /\ ret' = CallRet("getCachedResults", k, ttl, cached.results, "hit")
                     /\ UNCHANGED resultCache
    /\ evicted' = IF ret'.branch = "expired" THEN evicted \cup {k} ELSE evicted
    /\ got' = ret'.val
    /\ heap' = Live(heap, arr, got', resultCache')
    /\ stored' = Remembered(IF MapHas(stored, k) /\ now - stored[k].at > ttl
                            THEN MapDelete(stored, k) ELSE stored, heap')
    /\ UNCHANGED <<now, arr>>
    /\ OtherTables

GetCachedResults(k, ttl) == getCachedResults(k, ttl) /\ UNCHANGED taskVars

\* cache.ts:156-158
clearResultCache ==
    /\ resultCache' = EmptyMap
    /\ heap' = Live(heap, arr, got, resultCache')
    /\ stored' = EmptyMap
    /\ evicted' = {}
    /\ UNCHANGED <<now, arr, got>>

ClearResultCache ==
    /\ clearResultCache
    /\ ret' = [NoRet EXCEPT !.op = "clearResultCache"]
    /\ OnlyResult

----------------------------------------------------------------------------
\* a task: where it stands, the array it computed, and (history) the instant
\* of its set and how many sets had run when it returned
NotStarted == [pc |-> "get", results |-> NullRef, setAt |-> -1, seq |-> 0]

InitWith(f, c) ==
    /\ now = 0
    /\ heap = EmptyMap
    /\ arr = NullRef
    /\ got = NullRef
    /\ resultCache = EmptyMap
    /\ stored = EmptyMap
    /\ evicted = {}
    /\ patternCache = EmptyMap
    /\ engineCalls = 0
    /\ built = [id |-> 0, options |-> << >>, compiled |-> EmptyMap]
    /\ statCache = EmptyMap
    /\ statSet = EmptyMap
    /\ fp = f
    /\ ck = c
    /\ tasks = [t \in Tasks |-> NotStarted]
    /\ ret = NoRet

\* cache.ts:16, 24, 28: the three tables start empty
Init == InitWith(NoCall, NoCall)

\* the caller's array operations, with every kind of mutation
NextAlias ==
    \/ \E c \in FreshArrays : NewArray(c)
    \/ \E a \in Held, v \in Elems : ArrayPush(a, v)
    \/ \E a \in Held : ArrayPop(a)
    \/ \E a \in Held, i \in 1 .. MaxLen, v \in Elems : ArrayWrite(a, i, v)
    \/ \E k \in AliasKeys : SetCachedResults(k, arr)
    \/ \E k \in AliasKeys : GetCachedResults(k, DEFAULT_TTL)
    \/ ClearResultCache

SpecAlias == Init /\ [][NextAlias]_vars

(* C2: mutating the array a getCachedResults(k) returned does not change    *)
(* what a second getCachedResults(k) returns: every hit hands back the      *)
(* sequence that the last setCachedResults(k, r) stored.                    *)
C2_ReadSideCopy ==
    (ret.op = "getCachedResults" /\ ret.val # NullRef)
        => (MapHas(stored, ret.key) /\ heap[ret.val] = stored[ret.key].contents)

(* C3: after setCachedResults(k, arr), a mutation of arr by the caller      *)
(* (append, remove, overwrite) does not change what getCachedResults(k)     *)
(* returns: the entry holds the contents arr had when it was stored.        *)
C3_StoreSideCopy ==
    [][\A k \in DOMAIN stored :
          (ret'.op = "mutate" /\ ret'.val = stored[k].arg)
              => /\ MapHas(resultCache, k) /\ MapHas(resultCache', k)
                 /\ heap'[resultCache'[k].results] = heap[resultCache[k].results]
                 /\ stored[k].intact
                        => heap'[resultCache'[k].results] = stored[k].contents]_vars

\* arr was stored under k1 and then mutated; the entry still holds the old contents
C3_ArgMutated ==
    /\ ret.op = "mutate" /\ ret.val = arr
    /\ MapHas(stored, "k1") /\ stored["k1"].arg = arr
    /\ MapHas(resultCache, "k1")
    /\ heap[arr] # stored["k1"].contents
    /\ EntryContents("k1") = stored["k1"].contents

\* the result cache over time
NextTime ==
    \/ Tick
    \/ \E c \in FreshArrays : NewArray(c)
    \/ \E i \in 1 .. MaxLen, v \in Elems : ArrayWrite(got, i, v)
    \/ \E k \in ResultKeys : SetCachedResults(k, arr)
    \/ \E k \in ResultKeys, ttl \in TTLs : GetCachedResults(k, ttl)
    \/ ClearResultCache

SpecTime == Init /\ [][NextTime]_vars

(* C1: for an entry stored by setCachedResults(k, r) at instant T and not   *)
(* overwritten since, getCachedResults(k, ttl) at instant t returns r when  *)
(* t - T <= ttl; when t - T > ttl it returns null and removes the entry,    *)
(* so getResultCacheSize() is exactly one less than before the call.        *)
C1_TtlBoundary ==
    [][(/\ ret'.op = "getCachedResults"
        /\ MapHas(stored, ret'.key)
        /\ stored[ret'.key].intact)
          => LET k == ret'.key
                 e == stored[k]
             IN  IF now - e.at <= ret'.ttl
                 THEN /\ ret'.val # NullRef
                      /\ heap'[ret'.val] = e.contents
                 ELSE /\ ret'.val = NullRef
                      /\ ~MapHas(resultCache', k)
                      /\ MapSize(resultCache') = MapSize(resultCache) - 1]_vars

\* an entry older than the ttl of the call was just removed; the other stays
C1_EntryExpired ==
    /\ ret.op = "getCachedResults" /\ ret.branch = "expired" /\ ret.ttl = 1
    /\ ret.val = NullRef
    /\ MapSize(resultCache) = 1

StampArrays == { <<"x">>, <<"y">> }

\* one key, set again and again while the clock runs
NextStamp ==
    \/ Tick
    \/ \E c \in StampArrays : NewArray(c)
    \/ \E k \in AliasKeys : SetCachedResults(k, arr)
    \/ \E k \in AliasKeys, ttl \in TTLs : GetCachedResults(k, ttl)
    \/ ClearResultCache

SpecStamp == Init /\ [][NextStamp]_vars

(* C14: setCachedResults(k, r2) overwrites and restamps: after it the table *)
(* has one entry for k (the size grows only when k had none), stamped with  *)
(* the instant of this set and holding r2; a later getCachedResults(k, ttl) *)
(* at t returns r2 when t - T2 <= ttl, however long ago the first set was,  *)
(* and null otherwise.                                                      *)
C14_OverwriteRestamps ==
    [][/\ ret'.op = "setCachedResults"
            => LET k == ret'.key
               IN  /\ MapHas(resultCache', k)
                   /\ MapSize(resultCache')
                        = MapSize(resultCache) + (IF MapHas(resultCache, k) THEN 0 ELSE 1)
                   /\ resultCache'[k].timestamp = now
                   /\ heap'[resultCache'[k].results] = heap[ret'.val]
       /\ (ret'.op = "getCachedResults" /\ MapHas(stored, ret'.key))
            => LET e == stored[ret'.key]
               IN  IF now - e.at <= ret'.ttl
                   THEN ret'.val # NullRef /\ heap'[ret'.val] = e.contents
                   ELSE ret'.val = NullRef]_vars

\* set at 0, set again with other contents at 1, and a get with ttl = 1 at 2
\* is served the second contents
C14_ServedAfterRestamp ==
    /\ ret.op = "getCachedResults" /\ ret.branch = "hit" /\ ret.ttl = 1
    /\ now = 2
    /\ MapHas(stored, ret.key)
    /\ stored[ret.key].at = 1
    /\ stored[ret.key].over.any /\ stored[ret.key].over.earlier /\ stored[ret.key].over.differs
    /\ heap[ret.val] = stored[ret.key].contents
    /\ MapSize(resultCache) = 1

\* Two tasks populate the same key, each the way a caller of this cache
\* does: look the key up, on a miss compute the results (the point where the
\* other task may run) and store them.  A call runs to completion: the code
\* has no await, and JavaScript runs one call at a time.
RaceKey == "k1"
TaskResults(t) == IF t = "t1" THEN <<"x">> ELSE <<"y">>

TaskGet(t) ==
    /\ tasks[t].pc = "get"
    /\ getCachedResults(RaceKey, DEFAULT_TTL)
    /\ tasks' = [tasks EXCEPT ![t].pc = IF ret'.val = NullRef THEN "compute" ELSE "done"]

TaskCompute(t) ==
    /\ tasks[t].pc = "compute"
    /\ heap' = MapSet(heap, NewRef(heap), TaskResults(t))
    /\ tasks' = [tasks EXCEPT ![t].pc = "set", ![t].results = NewRef(heap)]
    /\ ret' = [NoRet EXCEPT !.op = "compute", !.val = NewRef(heap)]
    /\ UNCHANGED <<now, arr, got, resultCache, stored, evicted>>
    /\ OtherTables

TaskSet(t) ==
    /\ tasks[t].pc = "set"
    /\ setCachedResults(RaceKey, tasks[t].results)
    /\ tasks' = [tasks EXCEPT ![t].pc = "done",
                              ![t].setAt = now,
                              ![t].seq = 1 + Cardinality({u \in Tasks : tasks[u].seq > 0})]

NextRace ==
    \/ Tick
    \/ \E t \in Tasks : TaskGet(t)
    \/ \E t \in Tasks : TaskCompute(t)
    \/ \E t \in Tasks : TaskSet(t)

SpecRace == Init /\ [][NextRace]_vars

\* the tasks that have stored, and the one that stored last
Setters == {t \in Tasks : tasks[t].seq > 0}
LastSetter == CHOOSE t \in Setters : \A u \in Setters : tasks[u].seq <= tasks[t].seq

(* C15: two tasks racing to populate one key: under every interleaving of   *)
(* their gets, computations and sets the table never holds more than the    *)
(* one entry for the key, and once a task has stored, the entry holds the   *)
(* results and the timestamp of the set that ran last.                      *)
C15_LastWriteWins ==
    /\ DOMAIN resultCache \subseteq {RaceKey}
    /\ Setters # {}
          => /\ MapHas(resultCache, RaceKey)
             /\ EntryContents(RaceKey) = TaskResults(LastSetter)
             /\ resultCache[RaceKey].timestamp = tasks[LastSetter].setAt

\* both tasks missed, t2 stored first and t1 stored at a later instant
C15_BothStored ==
    /\ \A t \in Tasks : tasks[t].pc = "done"
    /\ tasks["t2"].seq = 1 /\ tasks["t1"].seq = 2
    /\ tasks["t2"].setAt < tasks["t1"].setAt
    /\ MapSize(resultCache) = 1
    /\ EntryContents(RaceKey) = <<"x">>

(* C16: expiry is lazy: an entry leaves the table only by a                 *)
(* getCachedResults on its own key that finds it expired, or by a clear,    *)
(* and is counted until then; a getCachedResults(k, ttl) neither removes    *)
(* nor alters the entry of any other key; and a call that hits leaves the   *)
(* whole table, timestamps included, as it was.                             *)
C16_LazyExpiryOnly ==
    [][/\ \A j \in DOMAIN resultCache :
            ~MapHas(resultCache', j)
                => \/ ret'.op = "clearResultCache"
                   \/ ret'.op = "getCachedResults" /\ ret'.key = j /\ ret'.val = NullRef
       /\ ret'.op = "getCachedResults"
            => /\ \A j \in DOMAIN resultCache \ {ret'.key} :
                    /\ MapHas(resultCache', j)
                    /\ resultCache'[j] = resultCache[j]
                    /\ heap'[resultCache'[j].results] = heap[resultCache[j].results]
               /\ ret'.val # NullRef
                    => /\ resultCache' = resultCache
                       /\ heap'[ret'.val] = heap[ret'.val]
       /\ ret'.op = "tick"
            => /\ resultCache' = resultCache
               /\ MapSize(resultCache') = MapSize(resultCache)]_vars

\* k2 was just found expired and removed; k1, as old, is still in the table
C16_ExpiredButCounted ==
    /\ ret.op = "getCachedResults" /\ ret.key = "k2" /\ ret.branch = "expired"
    /\ MapHas(resultCache, "k1")
    /\ now - resultCache["k1"].timestamp > ret.ttl
    /\ getResultCacheSize = 1

(* C20: once a getCachedResults(k, ttl1) has found the entry expired and    *)
(* removed it, every later getCachedResults(k, ttl2) returns null, for      *)
(* every ttl2, until the next setCachedResults(k, ...); and the removing    *)
(* call is one whose own ttl the entry's age exceeded.                      *)
C20_EvictionVisibleToAll ==
    [][ret'.op = "getCachedResults"
          => /\ ret'.key \in evicted
                  => /\ ret'.val = NullRef
                     /\ ~MapHas(resultCache', ret'.key)
             /\ ret'.key \in evicted' \ evicted
                  => /\ now - resultCache[ret'.key].timestamp > ret'.ttl
                     /\ ~MapHas(resultCache', ret'.key)]_vars

\* removed under a short ttl, then asked for under DEFAULT_TTL, which the
\* entry's age had not reached: null all the same
C20_MissAfterEviction ==
    /\ ret.op = "getCachedResults" /\ ret.ttl = DEFAULT_TTL /\ ret.val = NullRef
    /\ ret.key \in evicted
    /\ now < DEFAULT_TTL

(* C11, as claimed: getCachedResults(k, 0) never serves a stored result: it *)
(* returns null in every reachable state.                                   *)
C11_TtlZeroNeverServes ==
    (ret.op = "getCachedResults" /\ ret.ttl = 0) => ret.val = NullRef

(* C11, amended: getCachedResults(k, 0) on a key that has an entry returns  *)
(* null, removing the entry, exactly when the clock has moved since the     *)
(* entry was stamped; read at the instant of its timestamp, the entry is    *)
(* served and stays.                                                        *)
C11_TtlZeroServesSameInstant ==
    [][(ret'.op = "getCachedResults" /\ ret'.ttl = 0 /\ MapHas(resultCache, ret'.key))
          => LET k == ret'.key
             IN  IF now - resultCache[k].timestamp > 0
                 THEN ret'.val = NullRef /\ ~MapHas(resultCache', k)
                 ELSE ret'.val = resultCache[k].results /\ MapHas(resultCache', k)]_vars

\* a get with ttl = 0 was served the entry stored at this very instant
C11_ServedAtAgeZero ==
    /\ ret.op = "getCachedResults" /\ ret.ttl = 0 /\ ret.branch = "hit"
    /\ ret.val # NullRef
    /\ MapHas(resultCache, ret.key)
    /\ resultCache[ret.key].timestamp = now

----------------------------------------------------------------------------
(* Pattern cache                                                            *)

MaxOptKeys == 2
MaxEngineCalls == 2

StarDotJ == <<"*", ".", "j">>
\* stands for a pattern the engine rejects (minimatch: over 65536 characters)
TooLong == <<"~">>
Patterns == {StarDotJ, TooLong}

K_dot == <<"d", "o", "t">>
K_nocase == <<"n", "o", "c", "a", "s", "e">>
K_fs == <<"f", "s">>

OptionFields ==
    { [key |-> K_dot, val |-> JsTrue], [key |-> K_nocase, val |-> JsTrue],
      [key |-> K_fs, val |-> JsObject], [key |-> K_fs, val |-> JsFunction] }

DistinctKeys(o) == \A i, j \in 1 .. Len(o) : i # j => o[i].key # o[j].key

OptionSets ==
    UNION {{o \in [1 .. n -> OptionFields] : DistinctKeys(o)} : n \in 0 .. MaxOptKeys}

\* new Minimatch(pattern, options) throws on a pattern it does not accept
EngineAccepts(pattern) == pattern # TooLong

\* a slip the key derivation could make: the keys are not sorted
UnsortedOpts(options) ==
    LET ks == SelectSeq(ObjectKeys(options),
                        LAMBDA key : TypeOf(Property(options, key)) \notin {"object", "function"})
    IN  [i \in 1 .. Len(ks) |-> [key |-> ks[i], val |-> Property(options, ks[i])]]

\* cache.ts:39-48
SerializableOpts(options) ==
    LET ks == SortStrings(
                SelectSeq(ObjectKeys(options),
                          LAMBDA key : TypeOf(Property(options, key)) \notin {"object", "function"}))
    IN  [i \in 1 .. Len(ks) |-> [key |-> ks[i], val |-> Property(options, ks[i])]]

\* cache.ts:50  JSON.stringify({ pattern, options: serializableOpts })
PatternCacheKey(pattern, options) ==
    <<"pattern", pattern, "options", JsonObject(SerializableOpts(options))>>

\* a slip the store could make: an entry is written whether or not the engine threw
StoreAlways(pc, key, ok, inst) == MapSet(pc, key, inst)

\* a slip the store could make: the matcher is returned and never kept
StoreNever(pc, key, ok, inst) == pc

\* cache.ts:54-55  the set is reached only when new Minimatch(...) returned
StoreCompiled(pc, key, ok, inst) == IF ok THEN MapSet(pc, key, inst) ELSE pc

PatternRet(pattern, options, val, threw, branch) ==
    [op |-> "getCachedPattern", pattern |-> pattern, options |-> options,
     val |-> val, threw |-> threw, branch |-> branch]

getPatternCacheSize == MapSize(patternCache)

\* the cache key of every input, computed once
PatternKeys == [p \in Patterns |-> [o \in OptionSets |-> PatternCacheKey(p, o)]]

\* cache.ts:33-59; new Minimatch(pattern, options) is a new object, told from
\* every other by the number of the engine call that built it (0: none)
GetCachedPattern(pattern, options) ==
    LET cacheKey == PatternKeys[pattern][options]
    IN  /\ IF MapHas(patternCache, cacheKey)
           THEN /\ ret' = PatternRet(pattern, options, patternCache[cacheKey], FALSE, "hit")
                /\ UNCHANGED <<patternCache, engineCalls, built>>
           ELSE /\ engineCalls < MaxEngineCalls
                /\ engineCalls' = engineCalls + 1
                /\ patternCache' = StoreCompiled(patternCache, cacheKey,
                                                 EngineAccepts(pattern), engineCalls')
                /\ IF EngineAccepts(pattern)
                   THEN /\ ret' = PatternRet(pattern, options, engineCalls', FALSE, "miss")
                        /\ built' = [id |-> engineCalls', options |-> options,
                                      compiled |-> MapSet(built.compiled, cacheKey, engineCalls')]
                   ELSE /\ ret' = PatternRet(pattern, options, 0, TRUE, "miss")
                        /\ UNCHANGED built
        /\ OnlyPattern

\* cache.ts:64-66
clearPatternCache ==
    /\ patternCache' = EmptyMap
    /\ built' = [built EXCEPT !.compiled = EmptyMap]
    /\ UNCHANGED engineCalls

ClearPatternCache ==
    /\ clearPatternCache
    /\ ret' = [NoRet EXCEPT !.op = "clearPatternCache"]
    /\ OnlyPattern

NextPattern ==
    \/ \E p \in Patterns, o \in OptionSets : GetCachedPattern(p, o)
    \/ ClearPatternCache

SpecPattern == Init /\ [][NextPattern]_vars

\* the serializable part of an options object: its fields whose values are
\* neither objects nor functions, whatever their order
SerializableFields(o) ==
    {o[i] : i \in {n \in 1 .. Len(o) : TypeOf(o[n].val) \notin {"object", "function"}}}

(* C5: two successive getCachedPattern calls with the same pattern and with *)
(* options that differ only in key order or in object/function-valued       *)
(* fields return the same matcher instance, and the second call leaves      *)
(* getPatternCacheSize() as it was.                                         *)
C5_SameKeySameInstance ==
    [][(/\ ret.op = "getCachedPattern" /\ ~ret.threw
        /\ ret'.op = "getCachedPattern"
        /\ ret'.pattern = ret.pattern
        /\ SerializableFields(ret'.options) = SerializableFields(ret.options))
          => /\ ~ret'.threw
             /\ ret'.val = ret.val
             /\ MapSize(patternCache') = MapSize(patternCache)]_vars

\* a hit that returns the matcher built for the same fields in the other order
C5_ReorderedHit ==
    /\ ret.op = "getCachedPattern" /\ ret.branch = "hit"
    /\ ret.val = built.id
    /\ Len(ret.options) = 2 /\ Len(built.options) = 2
    /\ ret.options[1] = built.options[2]
    /\ ret.options[2] = built.options[1]
    /\ TypeOf(ret.options[1].val) = "boolean" /\ TypeOf(ret.options[2].val) = "boolean"

(* C6: when the engine fails inside getCachedPattern(p, o) the error        *)
(* reaches the caller and the pattern cache is unchanged; every call with   *)
(* such a pattern, also a repeated one, invokes the engine again.           *)
C6_FailureNotCached ==
    [][(ret'.op = "getCachedPattern" /\ (ret'.threw \/ ~EngineAccepts(ret'.pattern)))
          => /\ ret'.threw
             /\ patternCache' = patternCache
             /\ engineCalls' = engineCalls + 1]_vars

\* the engine failed twice and nothing is cached
C6_FailedTwice ==
    /\ ret.op = "getCachedPattern" /\ ret.threw
    /\ engineCalls = 2
    /\ patternCache = EmptyMap

(* C18: between two clears the engine compiles each derived key at most    *)
(* once: a getCachedPattern whose key was compiled since the last clear     *)
(* returns that very instance and does not invoke the engine, any other     *)
(* call invokes it once; and getPatternCacheSize() is the number of         *)
(* distinct keys compiled since the last clear.                             *)
C18_CompileOncePerKey ==
    [][ret'.op = "getCachedPattern"
          => LET key == PatternKeys[ret'.pattern][ret'.options]
             IN  /\ IF MapHas(built.compiled, key)
                    THEN /\ ret'.val = built.compiled[key]
                         /\ ~ret'.threw
                         /\ engineCalls' = engineCalls
                    ELSE engineCalls' = engineCalls + 1
                 /\ MapSize(patternCache') = Cardinality(DOMAIN built'.compiled)]_vars

\* compiled, cleared, compiled again, and then served the second instance
C18_ServedSecondCompilation ==
    /\ ret.op = "getCachedPattern" /\ ret.branch = "hit"
    /\ engineCalls = 2
    /\ ret.val = 2
    /\ DOMAIN built.compiled = {PatternKeys[ret.pattern][ret.options]}
    /\ getPatternCacheSize = 1

----------------------------------------------------------------------------
(* Stat cache                                                               *)

K_lstat == <<"l", "s", "t", "a", "t">>
K_stat == <<"s", "t", "a", "t">>
StatKinds == {K_lstat, K_stat}

StatPaths == { <<"/", "p">>, <<"/", "q">>, <<"s", "t", "a", "t", ":", "/", "p">> }

\* JavaScript values a caller may store, written as their literals; "A" is a
\* Stats object
StatValues == {"0", "false", "''", "A"}

Truthy(v) == v \notin {"0", "false", "''", "null", "undefined", "NaN"}

\* a slip the key could make: the kind is left out
StatKeyOfPath(statType, path) == path

\* cache.ts:192, 204  `${statType}:${path}`
StatKey(statType, path) == statType \o <<":">> \o path

StatRet(op, path, kind, val) == [op |-> op, path |-> path, kind |-> kind, val |-> val]

getStatCacheSize == MapSize(statCache)

\* cache.ts:191-194  statCache.get(key) || null
GetCachedStat(path, statType) ==
    LET key == StatKey(statType, path)
        found == IF MapHas(statCache, key) THEN statCache[key] ELSE "undefined"
    IN  /\ ret' = StatRet("getCachedStat", path, statType,
                          IF Truthy(found) THEN found ELSE "null")
        /\ UNCHANGED <<statCache, statSet>>
        /\ OnlyStat

\* cache.ts:199-206
SetCachedStat(path, result, statType) ==
    LET key == StatKey(statType, path)
    IN  /\ statCache' = MapSet(statCache, key, result)
        /\ statSet' = MapSet(statSet, <<path, statType>>, result)
        /\ ret' = [NoRet EXCEPT !.op = "setCachedStat"]
        /\ OnlyStat

\* cache.ts:211-213
clearStatCache ==
    /\ statCache' = EmptyMap
    /\ statSet' = EmptyMap

ClearStatCache ==
    /\ clearStatCache
    /\ ret' = [NoRet EXCEPT !.op = "clearStatCache"]
    /\ OnlyStat

NextStat ==
    \/ \E p \in StatPaths, k \in StatKinds : GetCachedStat(p, k)
    \/ \E p \in StatPaths, v \in StatValues, k \in StatKinds : SetCachedStat(p, v, k)
    \/ ClearStatCache

SpecStat == Init /\ [][NextStat]_vars

(* C7: after setCachedStat(path, v, kind), for every stored v (0, false and *)
(* '' included), getCachedStat(path, kind) returns v until the next clear   *)
(* or set for that (path, kind); it returns null only for a pair not set    *)
(* since the last clear.                                                    *)
C7_StatAuthoritative ==
    ret.op = "getCachedStat"
        => ret.val = IF MapHas(statSet, <<ret.path, ret.kind>>)
                     THEN statSet[<<ret.path, ret.kind>>]
                     ELSE "null"

\* no two distinct (path, kind) pairs share a cache key
StatKeysDistinct ==
    \A p1, p2 \in StatPaths, k1, k2 \in StatKinds :
        StatKey(k1, p1) = StatKey(k2, p2) => (p1 = p2 /\ k1 = k2)

(* C8: the kinds do not alias: getCachedStat(p, kind) returns a value only  *)
(* when that value was set for the same path and the same kind, so with no  *)
(* 'stat' entry for p it returns null whatever was set under 'lstat'; and   *)
(* no two distinct (path, kind) pairs share a cache key.                    *)
C8_KindIsolation ==
    /\ (ret.op = "getCachedStat" /\ ret.val # "null")
          => /\ MapHas(statSet, <<ret.path, ret.kind>>)
             /\ statSet[<<ret.path, ret.kind>>] = ret.val
    /\ StatKeysDistinct

\* 'stat' was asked for a path that has a value under 'lstat' only
C8_OtherKindMisses ==
    /\ ret.op = "getCachedStat" /\ ret.kind = K_stat /\ ret.val = "null"
    /\ MapHas(statSet, <<ret.path, K_lstat>>)
    /\ statSet[<<ret.path, K_lstat>>] = "A"
    /\ ~MapHas(statSet, <<ret.path, K_stat>>)

----------------------------------------------------------------------------
(* Fast-path classifier and matcher                                         *)

MaxPatLen == 4
MaxNameLen == 3

PatternChars == {"*", ".", "j", "?"}
NameChars == {"/", ".", "j"}

StringsOver(chars, n) == UNION {[1 .. m -> chars] : m \in 0 .. n}

FpPatterns == StringsOver(PatternChars, MaxPatLen)
FpNames == StringsOver(NameChars, MaxNameLen)

\* \w
WordChars ==
    {"a", "b", "c", "d", "e", "f", "j", "l", "n", "o", "p", "q", "s", "t", "w", "_"}
\* [?[\]{}()+@!]
SpecialChars == {"?", "[", "]", "{", "}", "(", ")", "+", "@", "!"}

\* a slip the suffix test could make: the start of the name is compared
StartsWith(s, suffix) ==
    /\ Len(suffix) <= Len(s)
    /\ SubSeq(s, 1, Len(suffix)) = suffix

\* String.prototype.endsWith
EndsWith(s, suffix) ==
    /\ Len(suffix) <= Len(s)
    /\ SubSeq(s, Len(s) - Len(suffix) + 1, Len(s)) = suffix

\* /^\*\.(\w+)$/ when stars = 1, /^\*\*\.(\w+)$/ when stars = 2
ExtRegexMatches(stars, pattern) ==
    /\ Len(pattern) >= stars + 2
    /\ \A i \in 1 .. stars : pattern[i] = "*"
    /\ pattern[stars + 1] = "."
    /\ \A i \in (stars + 2) .. Len(pattern) : pattern[i] \in WordChars

\* the group (\w+) of the match
ExtGroup(stars, pattern) == SubSeq(pattern, stars + 2, Len(pattern))

JsBool(b) == IF b THEN "true" ELSE "false"

\* cache.ts:79-92
IsSimplePattern(pattern) ==
    IF ExtRegexMatches(1, pattern) \/ ExtRegexMatches(2, pattern)
    THEN TRUE
    ELSE IF ~(\E i \in 1 .. Len(pattern) : pattern[i] \in SpecialChars)
         THEN TRUE
         ELSE FALSE

\* a slip the matcher could make: every pattern the classifier accepts gets
\* an answer, a pattern without wildcards by comparing it with the name
FastPathLiteral(pattern, filename) ==
    IF ExtRegexMatches(1, pattern)
    THEN JsBool(EndsWith(filename, <<".">> \o ExtGroup(1, pattern)))
    ELSE IF ExtRegexMatches(2, pattern)
         THEN JsBool(EndsWith(filename, <<".">> \o ExtGroup(2, pattern)))
         ELSE IF IsSimplePattern(pattern) THEN JsBool(filename = pattern) ELSE "null"

\* cache.ts:98-116
FastPathMatch(pattern, filename) ==
    IF ExtRegexMatches(1, pattern)
    THEN JsBool(EndsWith(filename, <<".">> \o ExtGroup(1, pattern)))
    ELSE IF ExtRegexMatches(2, pattern)
         THEN JsBool(EndsWith(filename, <<".">> \o ExtGroup(2, pattern)))
         ELSE "null"

\* The general glob matcher on one pattern and one path: a character matches
\* itself, `?` one character that is not `/`, `*` any run of characters that
\* are not `/`; two adjacent stars that are not a path segment of their own
\* match as one.
RECURSIVE GlobMatch(_, _)
GlobMatch(pattern, path) ==
    IF pattern = << >> THEN path = << >>
    ELSE IF Head(pattern) = "*"
         THEN \E n \in 0 .. Len(path) :
                 /\ \A i \in 1 .. n : path[i] # "/"
                 /\ GlobMatch(Tail(pattern), SubSeq(path, n + 1, Len(path)))
         ELSE /\ path # << >>
              /\ IF Head(pattern) = "?" THEN Head(path) # "/" ELSE Head(path) = Head(pattern)
              /\ GlobMatch(Tail(pattern), Tail(path))

FastArgs(p, f) ==
    [op |-> "args", pattern |-> p, filename |-> f, result |-> "pending", simple |-> "pending"]

InitFast == \E p \in FpPatterns, f \in FpNames : InitWith(FastArgs(p, f), NoCall)

CallFastPathMatch ==
    /\ fp.result = "pending"
    /\ fp' = [fp EXCEPT !.op = "fastPathMatch",
                        !.result = FastPathMatch(fp.pattern, fp.filename)]
    /\ UNCHANGED <<ck, ret>>
    /\ OnlyPure

CallIsSimplePattern ==
    /\ fp.simple = "pending"
    /\ fp' = [fp EXCEPT !.op = "isSimplePattern",
                        !.simple = JsBool(IsSimplePattern(fp.pattern))]
    /\ UNCHANGED <<ck, ret>>
    /\ OnlyPure

NextFast == CallFastPathMatch \/ CallIsSimplePattern

SpecFast == InitFast /\ [][NextFast]_vars

(* C4: whenever fastPathMatch(pattern, filename) gives a definite answer,   *)
(* it is the answer of the general glob matcher for that pattern and        *)
(* filename, in which `*` does not match across `/`.                        *)
C4_FastPathAgrees ==
    (fp.op # "none" /\ fp.result \in {"true", "false"})
        => fp.result = JsBool(GlobMatch(fp.pattern, fp.filename))

\* the pattern is n stars, a dot, and one or more word characters
StarsDotExt(p, n) ==
    /\ Len(p) >= n + 2
    /\ SubSeq(p, 1, n + 1) = [i \in 1 .. (n + 1) |-> IF i <= n THEN "*" ELSE "."]
    /\ {p[i] : i \in (n + 2) .. Len(p)} \subseteq WordChars

\* `*.ext` or `**.ext`
ExtForm(p) == StarsDotExt(p, 1) \/ StarsDotExt(p, 2)

\* '.ext' of a pattern of that form
DotExt(p) == SubSeq(p, IF p[2] = "." THEN 2 ELSE 3, Len(p))

\* the name is some prefix, directories included, followed by the suffix
HasSuffix(name, suffix) ==
    \E pre \in 0 .. Len(name) : SubSeq(name, pre + 1, Len(name)) = suffix

(* C12: for every pattern that is not of the form `*.ext` or `**.ext`, the  *)
(* patterns isSimplePattern accepts for having no special character         *)
(* included, fastPathMatch returns null for every filename.                 *)
C12_FallbackNull ==
    (fp.op # "none" /\ fp.result # "pending" /\ ~ExtForm(fp.pattern))
        => fp.result = "null"

\* 'jj': simple by the classifier, and no answer from the matcher
C12_SimpleButNull ==
    /\ fp.op # "none"
    /\ fp.pattern = <<"j", "j">>
    /\ fp.simple = "true"
    /\ fp.result = "null"

(* C13: for every pattern of the form `*.ext` or `**.ext`, isSimplePattern  *)
(* is true and fastPathMatch returns true exactly when the filename ends    *)
(* with '.ext', whatever directories precede it, and false otherwise.       *)
C13_SuffixMatch ==
    (fp.op # "none" /\ ExtForm(fp.pattern))
        => /\ fp.simple # "pending" => fp.simple = "true"
           /\ fp.result # "pending"
                 => fp.result = JsBool(HasSuffix(fp.filename, DotExt(fp.pattern)))

\* '**.j' against '/.j': true, and against a name without the suffix: false
C13_MatchedUnderDirectory ==
    /\ fp.op # "none"
    /\ fp.pattern = <<"*", "*", ".", "j">>
    /\ fp.filename = <<"/", ".", "j">>
    /\ fp.simple = "true"
    /\ fp.result = "true"

----------------------------------------------------------------------------
(* Cache key of a glob operation                                            *)

MaxPatterns == 2

P_a == <<"a">>
P_b == <<"b">>
P_ab == <<"a", "|", "b">>
PatternPool == {P_a, P_b, P_ab}

Cwds == { <<"/">>, <<"/", "w">> }

KeyOptions ==
    { << >>, <<[key |-> K_dot, val |-> JsTrue]>>, <<[key |-> K_fs, val |-> JsFunction]>> }

\* the pattern argument: a string (v holds just it), or an array of strings
PatternString(str) == [isArray |-> FALSE, v |-> <<str>>]
PatternArray(a) == [isArray |-> TRUE, v |-> a]

PatternArgs ==
    {PatternString(str) : str \in PatternPool}
        \cup {PatternArray(a) : a \in StringsOver(PatternPool, MaxPatterns)}

\* Array.prototype.join
RECURSIVE Join(_, _)
Join(a, sep) ==
    IF a = << >> THEN << >>
    ELSE IF Len(a) = 1 THEN a[1]
         ELSE a[1] \o sep \o Join(Tail(a), sep)

\* a slip the key derivation could make: the array is joined as it came
ArrayAsGiven(a) == a

\* Array.prototype.sort with no comparator: by UTF-16 code units, in place
ArraySort(a) == SortStrings(a)

\* cache.ts:176-183
CacheKeyOpts(options) ==
    LET optKeys == SortStrings(ObjectKeys(options))
        kept == SelectSeq(optKeys,
                          LAMBDA key : /\ TypeOf(Property(options, key)) # "function"
                                       /\ TypeOf(Property(options, key)) # "object")
    IN  [i \in 1 .. Len(kept) |-> [key |-> kept[i], val |-> Property(options, kept[i])]]

\* cache.ts:170-186: the key returned, and the pattern argument as the call
\* leaves it (sort() reorders the caller's array itself)
CreateCacheKey(pattern, cwd, options) ==
    LET sorted == IF pattern.isArray THEN ArraySort(pattern.v) ELSE pattern.v
        patterns == IF pattern.isArray THEN Join(sorted, <<"|">>) ELSE pattern.v[1]
    IN  [key |-> <<"patterns", patterns, "cwd", cwd, "opts", JsonObject(CacheKeyOpts(options))>>,
         pattern |-> [pattern EXCEPT !.v = sorted]]

\* one caller's call: its arguments, the pattern argument as it was passed,
\* and the key once the call has returned
KeyArgs(p, c, o) ==
    [pattern |-> p, passed |-> p, cwd |-> c, options |-> o, called |-> FALSE, key |-> << >>]

InitKey ==
    \E p1 \in PatternArgs, p2 \in PatternArgs, c1 \in Cwds, c2 \in Cwds,
       o1 \in KeyOptions, o2 \in KeyOptions :
        InitWith(NoCall, [op |-> "args", a |-> KeyArgs(p1, c1, o1), b |-> KeyArgs(p2, c2, o2)])

Called(call) ==
    LET out == CreateCacheKey(call.pattern, call.cwd, call.options)
    IN  [call EXCEPT !.called = TRUE, !.key = out.key, !.pattern = out.pattern]

CallCreateCacheKeyA ==
    /\ ~ck.a.called
    /\ ck' = [ck EXCEPT !.op = "createCacheKey", !.a = Called(ck.a)]
    /\ UNCHANGED <<fp, ret>>
    /\ OnlyPure

CallCreateCacheKeyB ==
    /\ ~ck.b.called
    /\ ck' = [ck EXCEPT !.op = "createCacheKey", !.b = Called(ck.b)]
    /\ UNCHANGED <<fp, ret>>
    /\ OnlyPure

NextKey == CallCreateCacheKeyA \/ CallCreateCacheKeyB

SpecKey == InitKey /\ [][NextKey]_vars

Count(a, x) == Cardinality({i \in 1 .. Len(a) : a[i] = x})

\* the same patterns, in any order
SameCollection(a, b) == \A x \in PatternPool : Count(a, x) = Count(b, x)

(* C10: createCacheKey returns the same key for every ordering of the       *)
(* pattern array: two calls whose arrays hold the same patterns in any      *)
(* order, with equal cwd and equal options, return equal keys.              *)
C10_OrderInvariant ==
    (/\ ck.op # "none"
     /\ ck.a.called /\ ck.b.called
     /\ ck.a.passed.isArray /\ ck.b.passed.isArray
     /\ SameCollection(ck.a.passed.v, ck.b.passed.v)
     /\ ck.a.cwd = ck.b.cwd
     /\ ck.a.options = ck.b.options)
        => ck.a.key = ck.b.key

C10_ReorderedSameKey ==
    /\ ck.op = "createCacheKey"
    /\ ck.a.called /\ ck.b.called
    /\ ck.a.passed = PatternArray(<<P_b, P_a>>)
    /\ ck.b.passed = PatternArray(<<P_a, P_b>>)
    /\ ck.a.cwd = ck.b.cwd
    /\ ck.a.options = ck.b.options
    /\ ck.a.key = ck.b.key

(* C17: createCacheKey is pure: after a call the caller's pattern argument  *)
(* has the same elements in the same order as before it, and two calls      *)
(* with the same inputs return the same key.                                *)
C17_KeyDerivationPure ==
    ck.op # "none"
        => /\ ck.a.called => ck.a.pattern = ck.a.passed
           /\ ck.b.called => ck.b.pattern = ck.b.passed
           /\ (/\ ck.a.called /\ ck.b.called
               /\ ck.a.passed = ck.b.passed
               /\ ck.a.cwd = ck.b.cwd
               /\ ck.a.options = ck.b.options) => ck.a.key = ck.b.key

\* the patterns as collections: a string is the collection of just itself
CollectionOf(p, x) == Count(p.v, x)

(* C19: createCacheKey gives two calls the same key only if their pattern   *)
(* arguments are the same collection of patterns (up to order), their cwd   *)
(* are equal and their serializable option projections are equal; so        *)
(* ['a','b'] and 'a|b' get different keys.                                  *)
C19_NoCollision ==
    (ck.op # "none" /\ ck.a.called /\ ck.b.called /\ ck.a.key = ck.b.key)
        => /\ \A x \in PatternPool : CollectionOf(ck.a.passed, x) = CollectionOf(ck.b.passed, x)
           /\ ck.a.cwd = ck.b.cwd
           /\ SerializableFields(ck.a.options) = SerializableFields(ck.b.options)

----------------------------------------------------------------------------
(* All three caches together                                                *)

AllPaths == { <<"/", "p">> }
AllStatValues == {"A", "0"}

\* cache.ts:234-240
getCacheStats ==
    [patternCacheSize |-> getPatternCacheSize,
     resultCacheSize |-> getResultCacheSize,
     statCacheSize |-> getStatCacheSize]

GetCacheStats ==
    /\ ret' = [op |-> "getCacheStats", val |-> getCacheStats]
    /\ UNCHANGED <<resultVars, patternVars, statVars, pureVars, taskVars>>

\* a slip clearAllCaches could make: the stat cache is left out
ClearTwoCaches ==
    /\ clearPatternCache
    /\ clearResultCache
    /\ UNCHANGED statVars
    /\ ret' = [op |-> "clearAllCaches", before |-> getCacheStats]
    /\ UNCHANGED <<pureVars, taskVars>>

\* cache.ts:225-229; `before` remembers the sizes the call found
ClearAllCaches ==
    /\ clearPatternCache
    /\ clearResultCache
    /\ clearStatCache
    /\ ret' = [op |-> "clearAllCaches", before |-> getCacheStats]
    /\ UNCHANGED <<pureVars, taskVars>>

NextAll ==
    \/ \E p \in Patterns : GetCachedPattern(p, << >>)
    \/ \E c \in FreshArrays : NewArray(c)
    \/ \E k \in AliasKeys : SetCachedResults(k, arr)
    \/ \E k \in AliasKeys : GetCachedResults(k, DEFAULT_TTL)
    \/ \E p \in AllPaths, v \in AllStatValues, k \in StatKinds : SetCachedStat(p, v, k)
    \/ \E p \in AllPaths, k \in StatKinds : GetCachedStat(p, k)
    \/ ClearAllCaches
    \/ GetCacheStats

SpecAll == Init /\ [][NextAll]_vars

AllEmpty == patternCache = EmptyMap /\ resultCache = EmptyMap /\ statCache = EmptyMap

NoStats == [patternCacheSize |-> 0, resultCacheSize |-> 0, statCacheSize |-> 0]

(* C9: clearAllCaches() leaves all three tables empty, whatever they held;  *)
(* while they are empty getCacheStats() returns 0 for all three sizes and   *)
(* every get misses: getCachedResults and getCachedStat return null and     *)
(* getCachedPattern compiles anew.                                          *)
C9_ClearAllExhaustive ==
    [][/\ ret'.op = "clearAllCaches" => AllEmpty'
       /\ AllEmpty =>
            /\ ret'.op = "getCacheStats" => ret'.val = NoStats
            /\ ret'.op = "getCachedResults" => ret'.val = NullRef
            /\ ret'.op = "getCachedStat" => ret'.val = "null"
            /\ ret'.op = "getCachedPattern" => ret'.branch = "miss"]_vars

C9_ClearedWhenFull ==
    /\ ret.op = "clearAllCaches"
    /\ ret.before.patternCacheSize > 0
    /\ ret.before.resultCacheSize > 0
    /\ ret.before.statCacheSize > 0
    /\ AllEmpty

====
